---- MODULE Spec2Model ----
(***************************************************************************)
(* Model of the airs_mpa Streamlit workflow (upload, processing,           *)
(* hypotheses manager, plan manager, plan execution, report builder).      *)
(* One session: st.session_state is the state, every widget handler of a   *)
(* page is one action, and each action ends with the re-run of the page    *)
(* script that Streamlit performs after it.                                *)
(***************************************************************************)
EXTENDS Integers, Sequences, FiniteSets, TLC

\* ------------------------------------------------------------------ bounds
\* largest number of hypothesis records one refinement answer holds
MaxHyps == 2
\* entries of report_chat_history
MaxReportChat == 3
\* largest number of messages the refinement and plan chats of one record
\* collection hold (seed messages not counted)
MaxMessages == 3
\* largest number of entries the execution transcripts of one record
\* collection hold
MaxRunMessages == 2

\* --------------------------------------------------------------- constants
\* a dict key that is absent
NoKey == "<missing>"
\* the value [] that refine_hypotheses stores in final_hypothesis
EmptyList == "[]"
\* the record's own refined_hypothesis_text, as returned by the first refinement
InitialRefined == "h0"
\* refined_hypothesis_text values a later refinement turn can return
RefinedTexts == {"h1", "h2"}
\* contents of the plan chat: the user's prompt, the assistant's output_text
PromptContent == "prompt"
\* the texts of the hypotheses file the user uploads
UploadedTexts == {"H1: growth rises with temperature"}
\* the keys of the dict assistants.create() stores in session_state.assistants
ASSISTANTS == {"data_summary", "analysis", "analysis_chat", "report"}
PlanContent == "plan_json"

Pages == {"upload", "processing", "hypotheses_manager", "plan_manager",
          "plan_execution", "report_builder"}

VARIABLES
    hypotheses_text,          \* session_state.hypotheses_text, NoKey when absent
    hypotheses,               \* session_state.hypotheses
    refinement_input,         \* the hypotheses value in the prompt of the
                              \* session's latest refinement call
    report_chat_history,
    page,                     \* the page st.navigation runs
    data_uploaded,
    hypotheses_uploaded,
    processing_done,
    data_summary,             \* TRUE when session_state.data_summary is non-empty
    need_refinement,
    updated_hypotheses,       \* updated_hypotheses['assistant_response'], <<>> when absent
    all_hypotheses_accepted,
    all_plans_generated,
    all_plans_executed,
    selected_hypothesis,
    current_hypothesis_idx,
    current_exec_idx,
    analysis_running,
    report_running,
    report_generated,
    \* one run of an event aggregator (stream_assistant, stream_report_chat)
    aggregator,               \* which of the two loops runs
    events,                   \* the events the assistant stream delivers
    cursor,                   \* number of events the for loop has consumed
    assistant_items,          \* the local list of segments
    agg_status,               \* "idle", "streaming", "done" or "raised"
    \* one call of safe_load_plan
    parse_input,              \* the argument raw
    parse_result,             \* the value returned
    parse_status,             \* "idle", "pending", "returned" or "raised"
    \* the server process and its browser sessions
    DEFAULT_STATE,            \* the mutable values of the module-level dict
    session_state             \* st.session_state of every session

vars == <<hypotheses_text, hypotheses, refinement_input, report_chat_history,
          page, data_uploaded, hypotheses_uploaded, processing_done,
          data_summary, need_refinement, updated_hypotheses,
          all_hypotheses_accepted, all_plans_generated, all_plans_executed,
          selected_hypothesis, current_hypothesis_idx, current_exec_idx,
          analysis_running, report_running, report_generated,
          aggregator, events, cursor, assistant_items, agg_status,
          parse_input, parse_result, parse_status,
          DEFAULT_STATE, session_state>>

uploadVars == <<data_uploaded, hypotheses_uploaded>>
processingVars == <<processing_done, data_summary, need_refinement>>
gateVars == <<all_hypotheses_accepted, all_plans_generated, all_plans_executed>>
idxVars == <<selected_hypothesis, current_hypothesis_idx, current_exec_idx>>
runVars == <<analysis_running, report_running, report_generated>>
sessionVars == <<page, uploadVars, processingVars, updated_hypotheses, gateVars,
                 idxVars, runVars, hypotheses_text, hypotheses, refinement_input,
                 report_chat_history>>
aggVars == <<aggregator, events, cursor, assistant_items, agg_status>>
parserVars == <<parse_input, parse_result, parse_status>>
storeVars == <<DEFAULT_STATE, session_state>>
\* the variables no page handler touches
pureVars == <<aggVars, parserVars, storeVars>>

\* ---------------------------------------------------------------- helpers
Min(a, b) == IF a < b THEN a ELSE b

\* Python truthiness of a stored text value
Truthy(v) == v \notin {NoKey, EmptyList, ""}

RECURSIVE SumLen(_, _)
SumLen(hyps, i) ==
    IF i > Len(hyps) THEN 0
    ELSE (Len(hyps[i].chat_history) - 1)
         + Len(hyps[i].analysis_plan_chat_history)
         + SumLen(hyps, i + 1)

\* room for the k messages one more turn appends
HasRoom(k) == SumLen(updated_hypotheses, 1) + k <= MaxMessages

RECURSIVE SumRun(_, _)
SumRun(hyps, i) ==
    IF i > Len(hyps) THEN 0
    ELSE Len(hyps[i].plan_execution_chat_history) + SumRun(hyps, i + 1)

\* room for the k entries one more execution turn appends
HasRunRoom(k) == SumRun(updated_hypotheses, 1) + k <= MaxRunMessages

\* the record in focus of a page: hyps[idx] with 0-based idx
InRange(idx) == idx < Len(updated_hypotheses)

\* ------------------------------------------------------------ the records
\* one record of updated_hypotheses['assistant_response'] after refine_hypotheses
NewRecord ==
    [ refined_hypothesis_text     |-> InitialRefined,
      chat_history                |-> << [role |-> "assistant", refined |-> NoKey] >>,
      final_hypothesis            |-> EmptyList,
      plan_keys                   |-> FALSE,
      analysis_plan_chat_history  |-> << >>,
      analysis_plan               |-> "",
      analysis_plan_accepted      |-> FALSE,
      exec_keys                   |-> FALSE,
      plan_execution_chat_history |-> << >>,
      plan_executed               |-> FALSE,
      analysis_executed           |-> FALSE,
      accept_analysis_execution   |-> FALSE ]

ensure_plan_keys(h) == [h EXCEPT !.plan_keys = TRUE]

ensure_execution_keys(h) == [h EXCEPT !.exec_keys = TRUE]


\* json.loads-then-index view of a stored analysis_plan on the execution page:
\* the schema-constrained output_text loads to a dict with assistant_response,
\* a user message falls through to the markdown fallback, "" gives None
plan_dict(raw) ==
    CASE raw = PlanContent -> "schema_dict"
      [] raw = PromptContent -> "fallback_dict"
      [] OTHER -> "None"

\* ------------------------------------------------------- page script runs
\* what the top of a page script does to the records when the page is (re)run
RenderHyps(p, hyps, curp, cure) ==
    CASE p = "plan_manager" /\ curp < Len(hyps) ->
            [hyps EXCEPT ![curp + 1] = ensure_plan_keys(@)]
      [] p = "plan_execution" /\ cure < Len(hyps) ->
            [hyps EXCEPT ![cure + 1] = ensure_execution_keys(@)]
      [] OTHER -> hyps

\* "Guard selected_hypothesis index" of the hypotheses manager
GuardSelected(p, hyps, sel) ==
    IF p = "hypotheses_manager" /\ Len(hyps) > 0
    THEN Min(sel, Len(hyps) - 1)
    ELSE sel

\* every record up to and including 0-based idx has the final_hypothesis key,
\* so the sidebar loop of the plan / execution page reaches the button of idx
SidebarReaches(idx) ==
    \A j \in 1..(idx + 1) : updated_hypotheses[j].final_hypothesis # NoKey

SidebarComplete ==
    \A j \in 1..Len(updated_hypotheses) :
        updated_hypotheses[j].final_hypothesis # NoKey

\* ------------------------------------------------------------ plan parser
\* safe_load_plan and its helpers (utils.py).  A Python value is its type name
\* and its text: the characters of a str, the printed form of any other value.
\* Texts are strings read character by character.  The character "~" stands
\* for the grave accent, which a string of this language cannot hold.
Backtick == "~"
Fence == "~~~"

PyNone == [type |-> "NoneType", val |-> "None"]
PyStr(text) == [type |-> "str", val |-> text]
PyDict(printed) == [type |-> "dict", val |-> printed]
PyList(printed) == [type |-> "list", val |-> printed]
PyInt(printed) == [type |-> "int", val |-> printed]
\* the outcome of a call that an exception leaves, named by the exception
PyRaise(exception) == [type |-> "raise", val |-> exception]

\* "not raw"
Falsy(v) ==
    CASE v.type = "NoneType" -> TRUE
      [] v.type = "str" -> v.val = ""
      [] OTHER -> v.val \in {"{}", "[]", "0", "False"}

Whitespace == {" ", "\n", "\t"}
Digits == {"0", "1", "2", "3", "4", "5", "6", "7", "8", "9"}
\* the characters of the argument of lstrip("` pythonjson")
FenceChars == {Backtick, " ", "p", "y", "t", "h", "o", "n", "j", "s"}

At(text, i) == SubSeq(text, i, i)
From(text, i) == SubSeq(text, i, Len(text))

RECURSIVE lstrip(_, _)
lstrip(text, chars) ==
    IF Len(text) > 0 /\ At(text, 1) \in chars
    THEN lstrip(From(text, 2), chars)
    ELSE text

RECURSIVE rstrip(_, _)
rstrip(text, chars) ==
    IF Len(text) > 0 /\ At(text, Len(text)) \in chars
    THEN rstrip(SubSeq(text, 1, Len(text) - 1), chars)
    ELSE text

strip(text) == rstrip(lstrip(text, Whitespace), Whitespace)

startswith(text, prefix) ==
    Len(text) >= Len(prefix) /\ SubSeq(text, 1, Len(prefix)) = prefix

\* position of the first c at or after position i, 0 when there is none
RECURSIVE find(_, _, _)
find(text, c, i) ==
    IF i > Len(text) THEN 0
    ELSE IF At(text, i) = c THEN i
    ELSE find(text, c, i + 1)

\* deepest nesting the interpreter decodes before it raises RecursionError
\* (the recursion limit, scaled down)
RecursionLimit == 3

\* a text that opens n nested arrays
RECURSIVE Nested(_)
Nested(n) == IF n = 0 THEN "" ELSE "[" \o Nested(n - 1)

\* number of arrays the text opens before anything else
opening_depth(text) == Len(text) - Len(lstrip(text, {"["}))

\* json.loads on the texts the parser can meet: the texts that are JSON
\* documents, with their values; surrounding whitespace is not significant
JsonTable ==
    ("\"x\"" :> PyStr("x"))
    @@ ("7" :> PyInt("7"))
    @@ ("[{\"a\": 1}]" :> PyList("[{'a': 1}]"))
    @@ ("null" :> PyNone)
    @@ ("{\"a\": 1}" :> PyDict("{'a': 1}"))
    @@ ("{}" :> PyDict("{}"))

\* the decoder recurses once per opened array and leaves with RecursionError,
\* which is no JSONDecodeError, when the text nests deeper than the limit
json_loads(text) ==
    IF opening_depth(strip(text)) > RecursionLimit
    THEN [ok |-> FALSE, error |-> "RecursionError", value |-> PyNone]
    ELSE IF strip(text) \in DOMAIN JsonTable
    THEN [ok |-> TRUE, error |-> "", value |-> JsonTable[strip(text)]]
    ELSE [ok |-> FALSE, error |-> "JSONDecodeError", value |-> PyNone]

\* ast.literal_eval on the same texts: the texts that are Python literals
LiteralTable ==
    ("\"x\"" :> PyStr("x"))
    @@ ("7" :> PyInt("7"))
    @@ ("[{\"a\": 1}]" :> PyList("[{'a': 1}]"))
    @@ ("[{'a': 1}]" :> PyList("[{'a': 1}]"))
    @@ ("{\"a\": 1}" :> PyDict("{'a': 1}"))
    @@ ("{\"a\": True}" :> PyDict("{'a': True}"))
    @@ ("{'a': 1}" :> PyDict("{'a': 1}"))
    @@ ("{}" :> PyDict("{}"))

\* every exception of ast.literal_eval is caught by the caller alike
literal_eval(text) ==
    IF strip(text) \in DOMAIN LiteralTable
    THEN [ok |-> TRUE, value |-> LiteralTable[strip(text)]]
    ELSE [ok |-> FALSE, value |-> PyNone]

\* JSON_RE.search: from the first "{" to the nearest "}" after it; "" is None
extract_json_fragment(text) ==
    LET i == find(text, "{", 1)
        j == IF i = 0 THEN 0 ELSE find(text, "}", i + 1)
    IN  IF j = 0 THEN "" ELSE SubSeq(text, i, j)

RECURSIVE splitlines(_)
splitlines(text) ==
    LET i == find(text, "\n", 1)
    IN  IF text = "" THEN << >>
        ELSE IF i = 0 THEN <<text>>
        ELSE <<SubSeq(text, 1, i - 1)>> \o splitlines(From(text, i + 1))

\* [ln.strip() for ln in text.splitlines() if ln.strip()]
stripped_lines(text) ==
    LET all == splitlines(text)
    IN  SelectSeq([k \in 1..Len(all) |-> strip(all[k])], LAMBDA ln : ln # "")

\* STEP_RE.match(ln): group 1 of ^(?:\d+\.\s+|[-*+]\s+)(.+), "" for no match
step_match(ln) ==
    LET digits == Len(ln) - Len(lstrip(ln, Digits))
        marker == IF digits > 0 /\ digits < Len(ln) /\ At(ln, digits + 1) = "."
                  THEN digits + 1
                  ELSE IF digits = 0 /\ At(ln, 1) \in {"-", "*", "+"} THEN 1
                  ELSE 0
        rest == From(ln, marker + 1)
        body == lstrip(rest, Whitespace)
    IN  IF marker > 0 /\ Len(body) < Len(rest) THEN body ELSE ""

RECURSIVE printed_steps(_)
printed_steps(steps) ==
    IF steps = << >> THEN ""
    ELSE "{'step': '" \o Head(steps) \o "'}"
         \o (IF Len(steps) > 1 THEN ", " ELSE "") \o printed_steps(Tail(steps))

_mk_fallback_plan(text) ==
    LET lines == stripped_lines(text)
        title == IF lines # << >> THEN lstrip(lines[1], {"#", " "})
                 ELSE "Analysis Plan"
        matched == SelectSeq([k \in 1..(Len(lines) - 1) |-> strip(step_match(lines[k + 1]))],
                             LAMBDA body : body # "")
        steps == IF matched # << >> THEN matched ELSE <<strip(text)>>
    IN  PyDict("{'analyses': [{'title': '" \o title \o "', 'steps': ["
               \o printed_steps(steps) \o "]}]}")

\* the fenced-block strip of safe_load_plan
unfence(txt) ==
    IF startswith(txt, Fence)
    THEN strip(rstrip(lstrip(txt, FenceChars), {Backtick}))
    ELSE txt

\* mutant: the embedded fragment is tried before the whole text
ladder_fragment_first(txt) ==
    LET frag == extract_json_fragment(txt)
    IN  IF frag # "" /\ json_loads(frag).ok THEN json_loads(frag).value
        ELSE IF json_loads(txt).ok THEN json_loads(txt).value
        ELSE IF json_loads(txt).error # "JSONDecodeError"
        THEN PyRaise(json_loads(txt).error)
        ELSE IF literal_eval(txt).ok /\ literal_eval(txt).value.type = "dict"
        THEN literal_eval(txt).value
        ELSE _mk_fallback_plan(txt)

\* the try/except ladder of safe_load_plan; "except json.JSONDecodeError"
\* lets every other exception of json.loads leave the function
ladder(txt) ==
    IF json_loads(txt).ok THEN json_loads(txt).value
    ELSE IF json_loads(txt).error # "JSONDecodeError"
    THEN PyRaise(json_loads(txt).error)
    ELSE IF literal_eval(txt).ok /\ literal_eval(txt).value.type = "dict"
    THEN literal_eval(txt).value
    ELSE LET frag == extract_json_fragment(txt)
         IN  IF frag # "" /\ json_loads(frag).ok THEN json_loads(frag).value
             ELSE IF frag # "" /\ json_loads(frag).error # "JSONDecodeError"
             THEN PyRaise(json_loads(frag).error)
             ELSE _mk_fallback_plan(txt)

\* mutant: the emptiness test comes before the mapping test
safe_load_plan_empty_first(raw) ==
    IF Falsy(raw) THEN PyNone
    ELSE IF raw.type = "dict" THEN raw
    ELSE IF raw.type = "str" THEN ladder(unfence(strip(raw.val)))
    ELSE PyNone

safe_load_plan(raw) ==
    IF raw.type = "dict" THEN raw
    ELSE IF Falsy(raw) THEN PyNone
    ELSE IF raw.type = "str" THEN ladder(unfence(strip(raw.val)))
    ELSE PyNone

\* ------------------------------------------------- sessions of one server
Sessions == {"s1", "s2"}

\* files={}, file_ids=[], images=[]: the three mutable values of
\* DEFAULT_STATE the pages change in place; a dict is the list of its keys
\* in insertion order
EmptyObjects == [files |-> << >>, file_ids |-> << >>, images |-> << >>]

\* a browser session before its first script run
NoSession ==
    [connected |-> FALSE, shared |-> FALSE, own |-> EmptyObjects,
     data_uploaded |-> FALSE, hypotheses_uploaded |-> FALSE]

\* the server has started and no browser has connected
StoresIdle ==
    /\ DEFAULT_STATE = EmptyObjects
    /\ session_state = [s \in Sessions |-> NoSession]

\* ------------------------------------------------------------------- Init
\* no aggregator loop is running
AggregatorIdle ==
    /\ aggregator = "execution"
    /\ events = << >>
    /\ cursor = 0
    /\ assistant_items = << >>
    /\ agg_status = "idle"

\* no call of safe_load_plan is under way
ParserIdle ==
    /\ parse_input = PyNone
    /\ parse_result = PyNone
    /\ parse_status = "idle"

\* DEFAULT_STATE as init_state() leaves it, on the first page
SessionDefaults ==
    /\ page = "upload"
    /\ data_uploaded = FALSE
    /\ hypotheses_uploaded = FALSE
    /\ processing_done = FALSE
    /\ data_summary = FALSE
    /\ need_refinement = FALSE
    /\ updated_hypotheses = << >>
    /\ all_hypotheses_accepted = FALSE
    /\ all_plans_generated = FALSE
    /\ all_plans_executed = FALSE
    /\ selected_hypothesis = 0
    /\ current_hypothesis_idx = 0
    /\ current_exec_idx = 0
    /\ analysis_running = FALSE
    /\ report_running = FALSE
    /\ report_generated = FALSE
    /\ hypotheses_text = NoKey
    /\ hypotheses = ""
    /\ refinement_input = NoKey
    /\ report_chat_history = << >>

Init ==
    /\ SessionDefaults
    /\ AggregatorIdle
    /\ ParserIdle
    /\ StoresIdle

\* ------------------------------------------------------------ upload page
UploadCsv ==
    /\ page = "upload"
    /\ data_uploaded' = TRUE
    /\ UNCHANGED <<pureVars, hypotheses_text, hypotheses, refinement_input,
                   report_chat_history, page, hypotheses_uploaded, processingVars,
                   updated_hypotheses,
                   gateVars, idxVars, runVars>>

\* the TXT uploader: the decoded file goes to session_state.hypotheses_text
UploadTxt(text) ==
    /\ page = "upload"
    /\ hypotheses_text' = text
    /\ hypotheses_uploaded' = TRUE
    /\ UNCHANGED <<pureVars, hypotheses, refinement_input, report_chat_history,
                   page, data_uploaded, processingVars, updated_hypotheses,
                   gateVars, idxVars, runVars>>

\* -------------------------------------------------------- processing page
\* refine_hypotheses: the records are rebuilt from the assistant's answer
refine_hypotheses(n) == [i \in 1..n |-> NewRecord]

\* the tail of the processing page script: "refinement if flagged"
RefinementIfFlagged(need, summary) ==
    IF data_uploaded /\ hypotheses_uploaded /\ need /\ summary
    THEN \* the prompt is built from session_state.hypotheses before the call
         /\ refinement_input' = hypotheses
         /\ \E ok \in BOOLEAN :
               IF ok
               THEN \E n \in 1..MaxHyps :
                       /\ updated_hypotheses' = refine_hypotheses(n)
                       /\ need_refinement' = FALSE
               ELSE /\ updated_hypotheses' = updated_hypotheses
                    /\ need_refinement' = need
    ELSE /\ updated_hypotheses' = updated_hypotheses
         /\ need_refinement' = need
         /\ refinement_input' = refinement_input

StartProcessing ==
    /\ page = "processing"
    /\ data_uploaded /\ hypotheses_uploaded
    /\ \E ok \in BOOLEAN :
          IF ok
          THEN \* generate_data_summary succeeded, st.rerun() runs the page again
               /\ processing_done' = TRUE
               /\ data_summary' = TRUE
               /\ RefinementIfFlagged(TRUE, TRUE)
          ELSE \* the assistant call raised after processing_done was cleared
               /\ processing_done' = FALSE
               /\ UNCHANGED <<data_summary, need_refinement, updated_hypotheses,
                              refinement_input>>
    /\ UNCHANGED <<pureVars, hypotheses_text, hypotheses, report_chat_history, page,
                   uploadVars, gateVars, idxVars, runVars>>

\* "Save" in the form of edit_data_summary.  The form is shown in edit_mode,
\* which the edit button sets whenever data_summary is non-empty; the handler
\* flags the refinement and st.rerun() runs the page again
SaveMetadata ==
    /\ page = "processing"
    /\ data_uploaded /\ hypotheses_uploaded
    /\ data_summary
    /\ RefinementIfFlagged(TRUE, data_summary)
    /\ UNCHANGED <<pureVars, hypotheses_text, hypotheses, report_chat_history, page,
                   uploadVars, processing_done, data_summary,
                   gateVars, idxVars, runVars>>

NextStageUpload ==
    /\ page = "upload"
    /\ data_uploaded /\ hypotheses_uploaded
    /\ page' = "processing"
    /\ RefinementIfFlagged(need_refinement, data_summary)
    /\ UNCHANGED <<pureVars, hypotheses_text, hypotheses, report_chat_history,
                   uploadVars, processing_done, data_summary, gateVars,
                   idxVars, runVars>>

NextStageProcessing ==
    /\ page = "processing"
    /\ data_uploaded /\ hypotheses_uploaded
    /\ processing_done
    /\ page' = "hypotheses_manager"
    /\ selected_hypothesis' =
          GuardSelected("hypotheses_manager", updated_hypotheses, selected_hypothesis)
    /\ UNCHANGED <<pureVars, hypotheses_text, hypotheses, refinement_input,
                   report_chat_history, uploadVars, processingVars,
                   updated_hypotheses, gateVars,
                   current_hypothesis_idx, current_exec_idx, runVars>>

\* ------------------------------------------------- sidebar of st.navigation
\* app.py lists all six pages; a click runs the chosen page script
Navigate(p) ==
    /\ page' = p
    /\ IF p = "processing"
       THEN RefinementIfFlagged(need_refinement, data_summary)
       ELSE /\ updated_hypotheses' =
                  RenderHyps(p, updated_hypotheses, current_hypothesis_idx,
                             current_exec_idx)
            /\ need_refinement' = need_refinement
            /\ refinement_input' = refinement_input
    /\ selected_hypothesis' = GuardSelected(p, updated_hypotheses, selected_hypothesis)
    /\ UNCHANGED <<pureVars, hypotheses_text, hypotheses, report_chat_history,
                   uploadVars, processing_done, data_summary, gateVars,
                   current_hypothesis_idx, current_exec_idx, runVars>>


\* ------------------------------------------------- hypotheses manager page
\* the page stops with a warning when there are no records
sel_idx == Min(selected_hypothesis, Len(updated_hypotheses) - 1)

\* mutant: a new prompt starts the discussion of the record afresh
refine_hypothesis_restarting(h, ok, text) ==
    LET asked == << [role |-> "user", refined |-> NoKey] >>
    IN  [h EXCEPT !.chat_history =
            IF ok THEN Append(asked, [role |-> "assistant", refined |-> text])
                  ELSE asked]

\* refine_hypothesis, called after main popped final_hypothesis: the user
\* message is appended before the call and the assistant message after it
refine_hypothesis(h, ok, text) ==
    LET asked == Append(h.chat_history, [role |-> "user", refined |-> NoKey])
    IN  [h EXCEPT !.chat_history =
            IF ok THEN Append(asked, [role |-> "assistant", refined |-> text])
                  ELSE asked]

\* mutant: the reset of final_hypothesis on a new prompt is left out
pop_final_hypothesis_skipped(h) == h

pop_final_hypothesis(h) == [h EXCEPT !.final_hypothesis = NoKey]

\* mutant: no early return on an empty chat history, the record's own
\* refined text is taken instead
accept_current_unguarded(h) ==
    LET last_refined == IF h.chat_history = << >> THEN NoKey
                        ELSE h.chat_history[Len(h.chat_history)].refined
    IN  [h EXCEPT !.final_hypothesis =
            IF Truthy(last_refined) THEN last_refined
                                    ELSE h.refined_hypothesis_text]

accept_current(h) ==
    IF h.chat_history = << >>
    THEN h
    ELSE LET last_refined == h.chat_history[Len(h.chat_history)].refined
         IN  [h EXCEPT !.final_hypothesis =
                 IF Truthy(last_refined) THEN last_refined
                                         ELSE h.refined_hypothesis_text]

AllFinal(hyps) == \A j \in 1..Len(hyps) : Truthy(hyps[j].final_hypothesis)

SelectHypothesis(idx) ==
    /\ page = "hypotheses_manager"
    /\ Len(updated_hypotheses) > 0
    /\ InRange(idx)
    /\ selected_hypothesis' = idx
    /\ UNCHANGED <<pureVars, hypotheses_text, hypotheses, refinement_input,
                   report_chat_history, page, uploadVars, processingVars,
                   updated_hypotheses, gateVars,
                   current_hypothesis_idx, current_exec_idx, runVars>>

ChatPrompt(ok, text) ==
    /\ page = "hypotheses_manager"
    /\ Len(updated_hypotheses) > 0
    /\ HasRoom(IF ok THEN 2 ELSE 1)
    /\ updated_hypotheses' =
          [updated_hypotheses EXCEPT ![sel_idx + 1] =
              refine_hypothesis(pop_final_hypothesis(@), ok, text)]
    /\ selected_hypothesis' = sel_idx
    /\ UNCHANGED <<pureVars, hypotheses_text, hypotheses, refinement_input,
                   report_chat_history, page, uploadVars, processingVars, gateVars,
                   current_hypothesis_idx, current_exec_idx, runVars>>

AcceptClicked ==
    /\ page = "hypotheses_manager"
    /\ Len(updated_hypotheses) > 0
    /\ ~Truthy(updated_hypotheses[sel_idx + 1].final_hypothesis)
    /\ LET hyps == [updated_hypotheses EXCEPT ![sel_idx + 1] = accept_current(@)]
       IN  /\ updated_hypotheses' = hyps
           /\ all_hypotheses_accepted' =
                 IF AllFinal(hyps) THEN TRUE ELSE all_hypotheses_accepted
    /\ selected_hypothesis' = sel_idx
    /\ UNCHANGED <<pureVars, hypotheses_text, hypotheses, refinement_input,
                   report_chat_history, page, uploadVars, processingVars,
                   all_plans_generated,
                   all_plans_executed, current_hypothesis_idx, current_exec_idx,
                   runVars>>

NextStageHypotheses ==
    /\ page = "hypotheses_manager"
    /\ Len(updated_hypotheses) > 0
    /\ all_hypotheses_accepted
    /\ selected_hypothesis' = 0
    /\ page' = "plan_manager"
    /\ updated_hypotheses' =
          RenderHyps("plan_manager", updated_hypotheses, current_hypothesis_idx,
                     current_exec_idx)
    /\ UNCHANGED <<pureVars, hypotheses_text, hypotheses, refinement_input,
                   report_chat_history, uploadVars, processingVars, gateVars,
                   current_hypothesis_idx,
                   current_exec_idx, runVars>>

\* ------------------------------------------------------ plan manager page
\* the script gets past "pick the hypothesis in focus", the sidebar and the header
PlanPageReady ==
    /\ page = "plan_manager"
    /\ InRange(current_hypothesis_idx)
    /\ SidebarComplete

hypo == updated_hypotheses[current_hypothesis_idx + 1]

AllReady(hyps) ==
    \A j \in 1..Len(hyps) :
        Truthy(hyps[j].analysis_plan) /\ hyps[j].analysis_plan_accepted

\* one assistant turn of the plan chat: user message first, answer after the call
plan_turn(h, ok) ==
    LET asked == Append(h.analysis_plan_chat_history,
                        [role |-> "user", content |-> PromptContent])
    IN  [h EXCEPT !.analysis_plan_chat_history =
            IF ok THEN Append(asked, [role |-> "assistant", content |-> PlanContent])
                  ELSE asked]

accept_plan(h) ==
    [h EXCEPT !.analysis_plan =
                 h.analysis_plan_chat_history[Len(h.analysis_plan_chat_history)].content,
              !.analysis_plan_accepted = TRUE]

\* mutant: editing also discards the stored plan
edit_plan_discarding(h) ==
    [h EXCEPT !.analysis_plan_accepted = FALSE, !.analysis_plan = ""]

edit_plan(h) == [h EXCEPT !.analysis_plan_accepted = FALSE]

SelectPlan(idx) ==
    /\ page = "plan_manager"
    /\ InRange(current_hypothesis_idx)
    /\ InRange(idx)
    /\ SidebarReaches(idx)
    /\ current_hypothesis_idx' = idx
    /\ updated_hypotheses' =
          RenderHyps("plan_manager", updated_hypotheses, idx, current_exec_idx)
    /\ UNCHANGED <<pureVars, hypotheses_text, hypotheses, refinement_input,
                   report_chat_history, page, uploadVars, processingVars, gateVars,
                   selected_hypothesis,
                   current_exec_idx, runVars>>

GeneratePlan(ok) ==
    /\ PlanPageReady
    /\ HasRoom(IF ok THEN 2 ELSE 1)
    /\ updated_hypotheses' =
          [updated_hypotheses EXCEPT ![current_hypothesis_idx + 1] = plan_turn(@, ok)]
    /\ UNCHANGED <<pureVars, hypotheses_text, hypotheses, refinement_input,
                   report_chat_history, page, uploadVars, processingVars, gateVars,
                   idxVars, runVars>>

PlanChat(ok) ==
    /\ PlanPageReady
    /\ ~hypo.analysis_plan_accepted
    /\ HasRoom(IF ok THEN 2 ELSE 1)
    /\ updated_hypotheses' =
          [updated_hypotheses EXCEPT ![current_hypothesis_idx + 1] = plan_turn(@, ok)]
    /\ UNCHANGED <<pureVars, hypotheses_text, hypotheses, refinement_input,
                   report_chat_history, page, uploadVars, processingVars, gateVars,
                   idxVars, runVars>>

AcceptPlan ==
    /\ PlanPageReady
    /\ ~hypo.analysis_plan_accepted
    /\ hypo.analysis_plan_chat_history # << >>
    /\ LET hyps == [updated_hypotheses EXCEPT
                        ![current_hypothesis_idx + 1] = accept_plan(@)]
       IN  /\ updated_hypotheses' = hyps
           /\ all_plans_generated' =
                 IF AllReady(hyps) THEN TRUE ELSE all_plans_generated
    /\ UNCHANGED <<pureVars, hypotheses_text, hypotheses, refinement_input,
                   report_chat_history, page, uploadVars, processingVars,
                   all_hypotheses_accepted,
                   all_plans_executed, idxVars, runVars>>

EditPlan ==
    /\ PlanPageReady
    /\ hypo.analysis_plan_accepted
    /\ updated_hypotheses' =
          [updated_hypotheses EXCEPT ![current_hypothesis_idx + 1] = edit_plan(@)]
    /\ UNCHANGED <<pureVars, hypotheses_text, hypotheses, refinement_input,
                   report_chat_history, page, uploadVars, processingVars, gateVars,
                   idxVars, runVars>>

NextStagePlan ==
    /\ PlanPageReady
    /\ hypo.analysis_plan_accepted
    /\ AllReady(updated_hypotheses)
    /\ page' = "plan_execution"
    /\ updated_hypotheses' =
          RenderHyps("plan_execution", updated_hypotheses, current_hypothesis_idx,
                     current_exec_idx)
    /\ UNCHANGED <<pureVars, hypotheses_text, hypotheses, refinement_input,
                   report_chat_history, uploadVars, processingVars, gateVars,
                   idxVars, runVars>>


\* ------------------------------------------------------ event aggregator
\* The for loop over the assistant stream in stream_assistant (execution
\* page) and stream_report_chat (report page).  A text is the sequence of its
\* fragments, += is \o; the html of an image is a function of its file id.
Aggregators == {"execution", "report"}

\* tool outputs of a completed run step
LogsOutput(text) == [kind |-> "logs", logs |-> text]
ImageOutput(fid, ok) == [kind |-> "image", file_id |-> fid, fetch_ok |-> ok]

\* the events of a stream; the fields hold what the loop reads of an event
StepCreated(tc) == [type |-> "ThreadRunStepCreated", tool_calls |-> tc]
StepDelta(input) == [type |-> "ThreadRunStepDelta", input |-> input]
StepCompleted(outputs) == [type |-> "ThreadRunStepCompleted", outputs |-> outputs]
MessageCreated == [type |-> "ThreadMessageCreated"]
MessageDelta(is_text, value) ==
    [type |-> "ThreadMessageDelta", is_text |-> is_text, value |-> value]
\* any event class the isinstance chain does not name
OtherEvent == [type |-> "ThreadRunCreated"]

html(fid) == <<"img", fid>>

\* mutant: a slot is opened for every event, whatever the last slot is
ensure_slot_always(items, tp) ==
    Append(items, [type |-> tp, content |-> << >>, file_id |-> NoKey])

ensure_slot(items, tp) ==
    IF items = << >> \/ items[Len(items)].type # tp
    THEN Append(items, [type |-> tp, content |-> << >>, file_id |-> NoKey])
    ELSE items

\* mutant: the new text is put in front of the content of the last slot
add_content_in_front(items, text) ==
    [items EXCEPT ![Len(items)].content = text \o @]

\* assistant_items[-1]['content'] += text, or .append(html)
add_content(items, text) ==
    [items EXCEPT ![Len(items)].content = @ \o text]

\* the loop's state: the list so far and whether an exception left the loop
Raised(st) == [st EXCEPT !.raised = TRUE]

on_step_created(st, ev) ==
    IF ev.tool_calls
    THEN [st EXCEPT !.items = ensure_slot(@, "code_input")]
    ELSE st

on_step_delta(st, ev) ==
    IF ev.input # << >>
    THEN [st EXCEPT !.items = add_content(ensure_slot(@, "code_input"), ev.input)]
    ELSE st

on_logs(st, out) ==
    [st EXCEPT !.items = add_content(ensure_slot(@, "code_output"), out.logs)]

\* client.files.content(fid).read() is not guarded; stream_report_chat has no
\* ensure_slot('image') before it appends to the last slot's content
on_image(agg, st, out) ==
    IF ~out.fetch_ok THEN Raised(st)
    ELSE IF agg = "execution"
    THEN LET slots == add_content(ensure_slot(st.items, "image"), <<html(out.file_id)>>)
         IN  [st EXCEPT !.items = [slots EXCEPT ![Len(slots)].file_id = out.file_id]]
    ELSE IF st.items = << >> THEN Raised(st)
    ELSE IF st.items[Len(st.items)].type # "image" THEN Raised(st)
    ELSE [st EXCEPT !.items = add_content(@, <<html(out.file_id)>>)]

RECURSIVE on_outputs(_, _, _)
on_outputs(agg, st, outputs) ==
    IF outputs = << >> \/ st.raised THEN st
    ELSE LET out == Head(outputs)
         IN  on_outputs(agg,
                        IF out.kind = "logs" THEN on_logs(st, out)
                        ELSE on_image(agg, st, out),
                        Tail(outputs))

on_message_created(st) == [st EXCEPT !.items = ensure_slot(@, "text")]

on_message_delta(st, ev) ==
    IF ev.is_text
    THEN [st EXCEPT !.items = add_content(ensure_slot(@, "text"), ev.value)]
    ELSE st

\* mutant: an event of another class opens a text slot
on_other_event_opening(st) == [st EXCEPT !.items = ensure_slot(@, "text")]

\* no branch of the isinstance chain matches
on_other_event(st) == st

\* one iteration of the for loop
on_event(agg, st, ev) ==
    CASE ev.type = "ThreadRunStepCreated" -> on_step_created(st, ev)
      [] ev.type = "ThreadRunStepDelta" -> on_step_delta(st, ev)
      [] ev.type = "ThreadRunStepCompleted" -> on_outputs(agg, st, ev.outputs)
      [] ev.type = "ThreadMessageCreated" -> on_message_created(st)
      [] ev.type = "ThreadMessageDelta" -> on_message_delta(st, ev)
      [] OTHER -> on_other_event(st)

\* the whole loop over a stream
RECURSIVE aggregate(_, _, _)
aggregate(agg, st, stream) ==
    IF stream = << >> \/ st.raised THEN st
    ELSE aggregate(agg, on_event(agg, st, Head(stream)), Tail(stream))

LoopStart == [items |-> << >>, raised |-> FALSE]

\* ---------------------------------------------------- plan execution page
\* the script gets past hypo_obj['analysis_plan'] (line 249)
ExecFocus ==
    /\ page = "plan_execution"
    /\ InRange(current_exec_idx)
    /\ updated_hypotheses[current_exec_idx + 1].plan_keys

hypo_obj == updated_hypotheses[current_exec_idx + 1]

\* ... and past the sidebar, the "could not parse" stop and the plan summary
ExecPageReady ==
    /\ ExecFocus
    /\ SidebarComplete
    /\ plan_dict(hypo_obj.analysis_plan) = "schema_dict"

\* where an assistant call of stream_assistant can raise: messages.create, or
\* runs.create and the image upload after the loop
StreamOutcomes == {"ok", "message_create_failed", "stream_failed"}

\* streams the assistant delivers in a run: code with its log and a closing
\* text, a text alone, and an image whose bytes cannot be read
RunStreams ==
    { <<StepDelta(<<"a">>), StepCompleted(<<LogsOutput(<<"l">>)>>),
        MessageDelta(TRUE, <<"t">>)>>,
      <<MessageDelta(TRUE, <<"t">>)>>,
      <<MessageCreated, StepCompleted(<<ImageOutput("f1", FALSE)>>)>> }

\* the turn gets to the final st.rerun()
Completes(outcome, stream) ==
    outcome = "ok" /\ ~aggregate("execution", LoopStart, stream).raised

\* mutant: a turn that raised marks the record as executed all the same
stream_assistant_marking(h, with_prompt, outcome, stream) ==
    [h EXCEPT !.plan_execution_chat_history =
                  IF with_prompt
                  THEN Append(@, [role |-> "user", content |-> PromptContent])
                  ELSE @,
              !.analysis_executed = TRUE]

\* mutant: the turn's entry replaces the transcript
stream_assistant_replacing(h, with_prompt, outcome, stream) ==
    [h EXCEPT !.plan_execution_chat_history =
                  IF Completes(outcome, stream)
                  THEN <<[role |-> "assistant",
                          items |-> aggregate("execution", LoopStart, stream).items]>>
                  ELSE @,
              !.analysis_executed = @ \/ Completes(outcome, stream)]

\* stream_assistant up to the exception or the final st.rerun()
stream_assistant(h, with_prompt, outcome, stream) ==
    LET asked == IF with_prompt
                 THEN Append(h.plan_execution_chat_history,
                             [role |-> "user", content |-> PromptContent])
                 ELSE h.plan_execution_chat_history
        run == aggregate("execution", LoopStart, stream)
    IN  IF Completes(outcome, stream)
        THEN [h EXCEPT !.plan_execution_chat_history =
                          Append(asked, [role |-> "assistant", items |-> run.items]),
                       !.analysis_executed = TRUE]
        ELSE [h EXCEPT !.plan_execution_chat_history = asked]

SelectExec(idx) ==
    /\ ExecFocus
    /\ InRange(idx)
    /\ SidebarReaches(idx)
    /\ current_exec_idx' = idx
    /\ updated_hypotheses' =
          RenderHyps("plan_execution", updated_hypotheses, current_hypothesis_idx, idx)
    /\ UNCHANGED <<pureVars, hypotheses_text, hypotheses, refinement_input,
                   report_chat_history, page, uploadVars, processingVars, gateVars,
                   selected_hypothesis,
                   current_hypothesis_idx, runVars>>

\* "Run analysis" (with_prompt = FALSE) or the chat input (with_prompt = TRUE);
\* stream_assistant leaves through an exception or through st.rerun(), so the
\* lines after the call in main are not run
RunOrChat(with_prompt, outcome, stream) ==
    /\ ExecPageReady
    /\ with_prompt \/ ~analysis_running
    /\ HasRunRoom((IF with_prompt THEN 1 ELSE 0)
                  + (IF Completes(outcome, stream) THEN 1 ELSE 0))
    /\ updated_hypotheses' =
          [updated_hypotheses EXCEPT ![current_exec_idx + 1] =
              stream_assistant([@ EXCEPT !.plan_executed = TRUE], with_prompt,
                               outcome, stream)]
    /\ analysis_running' =
          CASE Completes(outcome, stream) -> FALSE
            [] outcome = "message_create_failed" -> analysis_running
            [] OTHER -> TRUE
    /\ UNCHANGED <<pureVars, hypotheses_text, hypotheses, refinement_input,
                   report_chat_history, page, uploadVars, processingVars, gateVars,
                   idxVars,
                   report_running, report_generated>>

Done ==
    /\ ExecPageReady
    /\ hypo_obj.analysis_executed
    /\ updated_hypotheses' =
          [updated_hypotheses EXCEPT
              ![current_exec_idx + 1].accept_analysis_execution = TRUE]
    /\ UNCHANGED <<pureVars, hypotheses_text, hypotheses, refinement_input,
                   report_chat_history, page, uploadVars, processingVars, gateVars,
                   idxVars, runVars>>

\* "NEXT -> Report builder" is shown only when all_plans_executed is set
NextStageExecution ==
    /\ ExecPageReady
    /\ all_plans_executed
    /\ page' = "report_builder"
    /\ UNCHANGED <<pureVars, hypotheses_text, hypotheses, refinement_input,
                   report_chat_history, uploadVars, processingVars,
                   updated_hypotheses, gateVars,
                   idxVars, runVars>>

\* ---------------------------------------------------- report builder page
\* IMG_DIR / f'{fid}.png', the path stored next to file_id
image_path(fid) == <<"images/", fid, ".png">>

\* the parts build_report_prompt appends for one item; a part is a text, the
\* sequence of its fragments
item_parts(item) ==
    IF item.type = "image"
    THEN << <<item.file_id>>, image_path(item.file_id) >>
    ELSE << item.content >>

RECURSIVE items_parts(_)
items_parts(items) ==
    IF items = << >> THEN << >>
    ELSE item_parts(Head(items)) \o items_parts(Tail(items))

\* ... for one entry of plan_execution_chat_history
message_parts(msg) ==
    IF "items" \in DOMAIN msg THEN items_parts(msg.items)
    ELSE IF "content" \in DOMAIN msg THEN << <<msg.content>> >>
    ELSE << >>

RECURSIVE history_parts(_)
history_parts(hist) ==
    IF hist = << >> THEN << >>
    ELSE message_parts(Head(hist)) \o history_parts(Tail(hist))

\* prompt_parts of build_report_prompt, before ' '.join
RECURSIVE build_report_prompt(_)
build_report_prompt(hyps) ==
    IF hyps = << >> THEN << >>
    ELSE << <<"title">> >> \o history_parts(Head(hyps).plan_execution_chat_history)
         \o build_report_prompt(Tail(hyps))

\* build_report_prompt reads hyp['plan_execution_chat_history'] of every record
PromptBuilds ==
    \A j \in 1..Len(updated_hypotheses) : updated_hypotheses[j].exec_keys

GenerateReport(ok) ==
    /\ page = "report_builder"
    /\ Len(updated_hypotheses) > 0
    /\ ~report_running
    /\ IF PromptBuilds /\ ok
       THEN /\ report_generated' = TRUE
            /\ report_running' = FALSE
       ELSE /\ report_generated' = report_generated
            /\ report_running' = TRUE
    /\ UNCHANGED <<pureVars, hypotheses_text, hypotheses, refinement_input,
                   report_chat_history, page, uploadVars, processingVars,
                   updated_hypotheses, gateVars,
                   idxVars, analysis_running>>

\* a prompt typed under the generated report: stream_report_chat appends the
\* user entry, creates the thread message, then reads ASSISTANTS['report_chat']
\* for the run; an exception ends the script before the assistant entry
ReportChat(sent) ==
    /\ page = "report_builder"
    /\ Len(updated_hypotheses) > 0
    /\ report_generated
    /\ Len(report_chat_history) < MaxReportChat
    /\ report_chat_history' =
          IF sent /\ "report_chat" \in ASSISTANTS
          THEN report_chat_history \o <<[role |-> "user"], [role |-> "assistant"]>>
          ELSE Append(report_chat_history, [role |-> "user"])
    /\ UNCHANGED <<pureVars, hypotheses_text, hypotheses, refinement_input, page,
                   uploadVars, processingVars,
                   updated_hypotheses, gateVars, idxVars, runVars>>

\* "Start new session": session_state.clear(), then app.py's init_state()
StartNewSession ==
    /\ page = "report_builder"
    /\ Len(updated_hypotheses) > 0
    /\ report_generated
    /\ page' = "upload"
    /\ data_uploaded' = FALSE
    /\ hypotheses_uploaded' = FALSE
    /\ processing_done' = FALSE
    /\ data_summary' = FALSE
    /\ need_refinement' = FALSE
    /\ updated_hypotheses' = << >>
    /\ all_hypotheses_accepted' = FALSE
    /\ all_plans_generated' = FALSE
    /\ all_plans_executed' = FALSE
    /\ selected_hypothesis' = 0
    /\ current_hypothesis_idx' = 0
    /\ current_exec_idx' = 0
    /\ analysis_running' = FALSE
    /\ report_running' = FALSE
    /\ report_generated' = FALSE
    /\ hypotheses_text' = NoKey
    /\ hypotheses' = ""
    /\ refinement_input' = NoKey
    /\ report_chat_history' = << >>
    /\ UNCHANGED pureVars

\* ------------------------------------------------------------------- Next
\* upload page, processing page and the navigation sidebar
EntryStages ==
    \/ UploadCsv
    \/ \E text \in UploadedTexts : UploadTxt(text)
    \/ NextStageUpload
    \/ StartProcessing
    \/ SaveMetadata
    \/ NextStageProcessing
    \/ \E p \in Pages : Navigate(p)

HypothesesStage ==
    \/ \E idx \in 0..(MaxHyps - 1) : SelectHypothesis(idx)
    \/ \E ok \in BOOLEAN, text \in RefinedTexts : ChatPrompt(ok, text)
    \/ AcceptClicked
    \/ NextStageHypotheses

PlanStage ==
    \/ \E idx \in 0..(MaxHyps - 1) : SelectPlan(idx)
    \/ \E ok \in BOOLEAN : GeneratePlan(ok)
    \/ \E ok \in BOOLEAN : PlanChat(ok)
    \/ AcceptPlan
    \/ EditPlan
    \/ NextStagePlan

ExecutionStage ==
    \/ \E idx \in 0..(MaxHyps - 1) : SelectExec(idx)
    \/ \E with_prompt \in BOOLEAN, outcome \in StreamOutcomes, stream \in RunStreams :
          RunOrChat(with_prompt, outcome, stream)
    \/ Done

ReportStage ==
    \/ \E ok \in BOOLEAN : GenerateReport(ok)
    \/ \E sent \in BOOLEAN : ReportChat(sent)
    \/ StartNewSession

Next ==
    \/ EntryStages
    \/ HypothesesStage
    \/ PlanStage
    \/ ExecutionStage
    \/ ReportStage

Spec == Init /\ [][Next]_vars

\* upload, processing and hypotheses manager
NextHypotheses == EntryStages \/ HypothesesStage
SpecHypotheses == Init /\ [][NextHypotheses]_vars

\* upload, processing and plan manager
NextPlan == EntryStages \/ PlanStage
SpecPlan == Init /\ [][NextPlan]_vars

\* upload, processing, hypotheses manager and plan manager
NextReview == EntryStages \/ HypothesesStage \/ PlanStage
SpecReview == Init /\ [][NextReview]_vars

\* upload, processing, plan manager, plan execution and report builder

\* upload, processing, plan manager and plan execution
NextRun == EntryStages \/ PlanStage \/ ExecutionStage
SpecRun == Init /\ [][NextRun]_vars

\* upload, processing and report builder
NextReport == EntryStages \/ ReportStage
SpecReport == Init /\ [][NextReport]_vars

\* ------------------------------------------- the accept handler on its own
\* chat histories handed to accept_current: none, the seed, a failed turn,
\* a completed turn
ChatInputs ==
    LET seed == [role |-> "assistant", refined |-> NoKey]
        user == [role |-> "user", refined |-> NoKey]
        answer == [role |-> "assistant", refined |-> "h1"]
    IN  { << >>, <<seed>>, <<seed, user>>, <<seed, user, answer>> }

AcceptInputs ==
    { [NewRecord EXCEPT !.chat_history = c, !.final_hypothesis = f] :
        c \in ChatInputs, f \in {NoKey, EmptyList, InitialRefined, "h1"} }

InitAccept ==
    /\ page = "hypotheses_manager"
    /\ data_uploaded = TRUE
    /\ hypotheses_uploaded = TRUE
    /\ processing_done = TRUE
    /\ data_summary = TRUE
    /\ need_refinement = FALSE
    /\ \E n \in 1..MaxHyps : updated_hypotheses \in [1..n -> AcceptInputs]
    /\ all_hypotheses_accepted \in BOOLEAN
    /\ all_plans_generated = FALSE
    /\ all_plans_executed = FALSE
    /\ selected_hypothesis \in 0..(Len(updated_hypotheses) - 1)
    /\ current_hypothesis_idx = 0
    /\ current_exec_idx = 0
    /\ analysis_running = FALSE
    /\ report_running = FALSE
    /\ report_generated = FALSE
    /\ hypotheses_text \in UploadedTexts
    /\ hypotheses = ""
    /\ refinement_input = hypotheses
    /\ report_chat_history = << >>
    /\ AggregatorIdle
    /\ ParserIdle
    /\ StoresIdle

NextAccept ==
    \/ AcceptClicked
    \/ \E idx \in 0..(MaxHyps - 1) : SelectHypothesis(idx)

SpecAccept == InitAccept /\ [][NextAccept]_vars



\* --------------------------------------------- the aggregator loop on its own
\* longest stream of one assistant turn
MaxEvents == 4

\* one event of every kind the loop tells apart
EventAlphabet ==
    { StepCreated(TRUE), StepCreated(FALSE),
      StepDelta(<< >>), StepDelta(<<"a">>), StepDelta(<<"b">>),
      StepCompleted(<< >>),
      StepCompleted(<<LogsOutput(<<"l">>)>>),
      StepCompleted(<<ImageOutput("f1", TRUE)>>),
      StepCompleted(<<ImageOutput("f1", FALSE)>>),
      StepCompleted(<<LogsOutput(<<"l">>), ImageOutput("f1", TRUE)>>),
      StepCompleted(<<ImageOutput("f1", TRUE), ImageOutput("f2", TRUE)>>),
      MessageCreated,
      MessageDelta(TRUE, <<"t">>), MessageDelta(FALSE, << >>),
      OtherEvent }

EventStreams == UNION { [1..n -> EventAlphabet] : n \in 0..MaxEvents }

\* the loop is about to read the first event of the stream
InitAggregate ==
    /\ SessionDefaults
    /\ ParserIdle
    /\ StoresIdle
    /\ aggregator \in Aggregators
    /\ events \in EventStreams
    /\ cursor = 0
    /\ assistant_items = << >>
    /\ agg_status = "streaming"

\* one iteration of "for event in stream"
NextEvent ==
    /\ agg_status = "streaming"
    /\ cursor < Len(events)
    /\ LET st == on_event(aggregator, [items |-> assistant_items, raised |-> FALSE],
                          events[cursor + 1])
       IN  /\ assistant_items' = st.items
           /\ agg_status' = IF st.raised THEN "raised" ELSE "streaming"
    /\ cursor' = cursor + 1
    /\ UNCHANGED <<aggregator, events, sessionVars, parserVars, storeVars>>

\* the stream is exhausted and the loop is left
EndOfStream ==
    /\ agg_status = "streaming"
    /\ cursor = Len(events)
    /\ agg_status' = "done"
    /\ UNCHANGED <<aggregator, events, cursor, assistant_items, sessionVars,
                   parserVars, storeVars>>

NextAggregate == NextEvent \/ EndOfStream
SpecAggregate == InitAggregate /\ [][NextAggregate]_vars


\* ------------------------------------------------- the plan parser on its own
\* texts an assistant turn or a user can leave in analysis_plan
Bodies ==
    { "{\"a\": 1}",
      "[{\"a\": 1}]",
      "7",
      "null",
      "\"x\"",
      "{}",
      "{'a': 1}",
      "{\"a\": True}",
      "[{'a': 1}]",
      "Plan: {\"a\": 1} end",
      "{\"a\": 1} trailing",
      "x {\"a\": {\"b\": 1}} y",
      "{'a': 1} or {\"b\": 2}",
      "1. Do X\n2. Do Y",
      "# Title\n1. Do X\n- Do Y\n* Do Z",
      "Title\nfirst line\nsecond line",
      "- Do X",
      "notes\n12.  Do X\n+ Do Y\n-Do Z\n1.Do W",
      "json is nice",
      Nested(RecursionLimit + 1) }

\* a body as it is, padded with whitespace, or in a fenced block
Wrappings == {"plain", "padded", "json_fence", "bare_fence", "python_fence", "open_fence"}

Wrap(how, body) ==
    CASE how = "plain" -> body
      [] how = "padded" -> "  " \o body \o "\n"
      [] how = "json_fence" -> Fence \o "json\n" \o body \o "\n" \o Fence
      [] how = "bare_fence" -> Fence \o body \o Fence
      [] how = "python_fence" -> Fence \o "python\n" \o body \o "\n" \o Fence
      [] how = "open_fence" -> Fence \o "\n" \o body

PlanTexts == { Wrap(how, body) : how \in Wrappings, body \in Bodies } \cup {" \n "}

\* mappings: empty, a plan of the response schema, a fallback plan, other keys
Mappings ==
    { PyDict("{}"),
      PyDict("{'assistant_response': 'r', 'current_plan_execution': 'p'}"),
      PyDict("{'analyses': [{'title': 'T', 'steps': [{'step': 'S'}]}]}"),
      PyDict("{'a': 1}") }

PlanInputs ==
    Mappings
    \cup {PyNone, PyStr(""), PyList("[]"), PyList("[1]"), PyInt("0"), PyInt("7")}
    \cup { PyStr(text) : text \in PlanTexts }

\* safe_load_plan is about to be called on raw
InitParser ==
    /\ SessionDefaults
    /\ AggregatorIdle
    /\ StoresIdle
    /\ parse_input \in PlanInputs
    /\ parse_result = PyNone
    /\ parse_status = "pending"

\* the call returns a value, or an exception leaves it and nothing is returned
Parse ==
    /\ parse_status = "pending"
    /\ LET outcome == safe_load_plan(parse_input)
       IN  IF outcome.type = "raise"
           THEN /\ parse_status' = "raised"
                /\ parse_result' = parse_result
           ELSE /\ parse_status' = "returned"
                /\ parse_result' = outcome
    /\ UNCHANGED <<parse_input, sessionVars, aggVars, storeVars>>

NextParser == Parse
SpecParser == InitParser /\ [][NextParser]_vars

\* ----------------------------------------- two sessions of one server process
\* names of the CSV files a user can pick
FileNames == {"a.csv", "b.csv"}
\* most images one session list is let to hold
MaxImages == 1

\* the objects st.session_state.files, .file_ids and .images of s refer to:
\* the values of DEFAULT_STATE themselves after setdefault, copies of them
\* after copy.deepcopy
objects(s) ==
    IF session_state[s].shared THEN DEFAULT_STATE ELSE session_state[s].own

\* session s ends its run with the record rec and has changed the objects
\* it refers to, in place, to new
Store(s, rec, new) ==
    /\ DEFAULT_STATE' = IF rec.shared THEN new ELSE DEFAULT_STATE
    /\ session_state' =
          [session_state EXCEPT
              ![s] = [rec EXCEPT !.own = IF rec.shared THEN @ ELSE new]]
    /\ UNCHANGED <<sessionVars, aggVars, parserVars>>

Contains(seq, x) == \E k \in 1..Len(seq) : seq[k] = x

\* the first script run of a browser session: app.py calls init_state(), and
\* setdefault(k, v) stores the values of DEFAULT_STATE themselves
init_state(s) ==
    /\ ~session_state[s].connected
    /\ session_state' =
          [session_state EXCEPT
              ![s] = [connected |-> TRUE, shared |-> TRUE, own |-> EmptyObjects,
                      data_uploaded |-> FALSE, hypotheses_uploaded |-> FALSE]]
    /\ UNCHANGED <<DEFAULT_STATE, sessionVars, aggVars, parserVars>>

\* "UPLOAD" under the CSV uploader: st.session_state.files[csv_up.name] = csv_up
csv_upload(s, name) ==
    /\ session_state[s].connected
    /\ Store(s, [session_state[s] EXCEPT !.data_uploaded = TRUE],
             [objects(s) EXCEPT
                 !.files = IF Contains(@, name) THEN @ ELSE Append(@, name)])

\* "UPLOAD" under the TXT uploader; the text is bound to keys of its own
txt_upload(s) ==
    /\ session_state[s].connected
    /\ ~session_state[s].hypotheses_uploaded
    /\ Store(s, [session_state[s] EXCEPT !.hypotheses_uploaded = TRUE], objects(s))

\* "Remove" next to a file: del st.session_state.files[fname]
remove_file(s, name) ==
    /\ session_state[s].connected
    /\ Contains(objects(s).files, name)
    /\ LET left == SelectSeq(objects(s).files, LAMBDA f : f # name)
       IN  Store(s, [session_state[s] EXCEPT !.data_uploaded = (left # << >>)],
                 [objects(s) EXCEPT !.files = left])

\* "Yes, delete everything": clear(), then update(copy.deepcopy(DEFAULT_STATE))
reset_state(s) ==
    /\ session_state[s].connected
    /\ session_state' =
          [session_state EXCEPT
              ![s] = [connected |-> TRUE, shared |-> FALSE, own |-> DEFAULT_STATE,
                      data_uploaded |-> FALSE, hypotheses_uploaded |-> FALSE]]
    /\ UNCHANGED <<DEFAULT_STATE, sessionVars, aggVars, parserVars>>

\* the processing button: while file_ids is empty every file of files is
\* sent to the assistant and its id appended; an id is named after its file
generate_data_summary(s) ==
    /\ session_state[s].connected
    /\ session_state[s].data_uploaded
    /\ session_state[s].hypotheses_uploaded
    /\ objects(s).file_ids = << >>
    /\ Store(s, session_state[s], [objects(s) EXCEPT !.file_ids = objects(s).files])

\* an analysis of the session streams an image output that can be read:
\* st.session_state.images.append(...)
image_output(s) ==
    /\ session_state[s].connected
    /\ Len(objects(s).images) < MaxImages
    /\ Store(s, session_state[s], [objects(s) EXCEPT !.images = Append(@, "f1")])

\* what one session does in one script run
SessionRun(s) ==
    \/ init_state(s)
    \/ \E name \in FileNames : csv_upload(s, name)
    \/ txt_upload(s)
    \/ \E name \in FileNames : remove_file(s, name)
    \/ reset_state(s)
    \/ generate_data_summary(s)
    \/ image_output(s)

InitSessions ==
    /\ SessionDefaults
    /\ AggregatorIdle
    /\ ParserIdle
    /\ StoresIdle

NextSessions == \E s \in Sessions : SessionRun(s)
SpecSessions == InitSessions /\ [][NextSessions]_vars

\* ================================================================== claims
HasRecords == Len(updated_hypotheses) > 0

AllPlansAccepted(hyps) ==
    \A j \in 1..Len(hyps) : hyps[j].analysis_plan_accepted

AllExecuted(hyps) ==
    \A j \in 1..Len(hyps) : hyps[j].analysis_executed

AllExecutionsAccepted(hyps) ==
    \A j \in 1..Len(hyps) : hyps[j].accept_analysis_execution

\* C1: whenever records exist, the all_hypotheses_accepted gate is true
\* exactly when every record has a non-empty final_hypothesis; reopening a
\* record's discussion after all were accepted turns the gate off.
C1_GateIffAllAccepted ==
    HasRecords => (all_hypotheses_accepted <=> AllFinal(updated_hypotheses))

\* C2: the plan manager page is never the running page while some record
\* has an empty or missing final_hypothesis.
C2_PlanReviewOnlyWhenAccepted ==
    page = "plan_manager" => AllFinal(updated_hypotheses)

\* C3: the plan execution page is never the running page while some record
\* has no accepted analysis plan.
C3_ExecutionOnlyWhenPlansAccepted ==
    page = "plan_execution" => AllReady(updated_hypotheses)

\* C4: the report builder page is never the running page, and no report is
\* generated, while some record's execution is not accepted.
C4_ReportOnlyWhenExecutionsAccepted ==
    page = "report_builder" => AllExecutionsAccepted(updated_hypotheses)

\* C5: whenever records exist, the all_plans_generated gate is true exactly
\* when every record has analysis_plan_accepted; after 'Edit plan' it is false.
C5_GateIffAllPlansAccepted ==
    HasRecords => (all_plans_generated <=> AllPlansAccepted(updated_hypotheses))

\* C6: whenever every record has been executed the all_plans_executed gate is
\* true, so the step into the report stage is offered.
C6_GateWhenAllExecuted ==
    (HasRecords /\ AllExecuted(updated_hypotheses)) => all_plans_executed

\* C7: a step that appends a new chat message to a record whose
\* final_hypothesis is set leaves that record with final_hypothesis cleared,
\* whether the assistant answered (two messages appended) or failed (one).
C7_ReopenOnEdit ==
    [][ \A i \in 1..Len(updated_hypotheses) :
          ( /\ Len(updated_hypotheses') = Len(updated_hypotheses)
            /\ Len(updated_hypotheses'[i].chat_history)
                   > Len(updated_hypotheses[i].chat_history)
            /\ Truthy(updated_hypotheses[i].final_hypothesis) )
          => updated_hypotheses'[i].final_hypothesis = NoKey ]_vars

\* C7 witness: all hypotheses had been accepted, then the record in focus got
\* a new user message whose assistant call failed, and its final_hypothesis is gone
C7_Witness ==
    /\ page = "hypotheses_manager"
    /\ all_hypotheses_accepted
    /\ \E i \in 1..Len(updated_hypotheses) :
          LET h == updated_hypotheses[i]
          IN  /\ h.final_hypothesis = NoKey
              /\ h.chat_history[Len(h.chat_history)].role = "user"

\* C8: a step on the plan manager page that takes the accepted plan of the
\* record in focus back to not accepted changes nothing else: analysis_plan,
\* the plan chat history and every other record stay as they were.
C8_EditPlanFrame ==
    [][ ( /\ page = "plan_manager" /\ page' = "plan_manager"
          /\ InRange(current_hypothesis_idx)
          /\ current_hypothesis_idx' = current_hypothesis_idx
          /\ Len(updated_hypotheses') = Len(updated_hypotheses)
          /\ hypo.analysis_plan_accepted
          /\ ~updated_hypotheses'[current_hypothesis_idx + 1].analysis_plan_accepted )
        => updated_hypotheses' =
              [updated_hypotheses EXCEPT
                  ![current_hypothesis_idx + 1].analysis_plan_accepted = FALSE] ]_vars

\* C8 witness: two records; the one in focus was accepted and then edited (it
\* still holds its plan and plan chat), the other one holds an accepted plan
C8_Witness ==
    /\ page = "plan_manager"
    /\ Len(updated_hypotheses) = 2
    /\ InRange(current_hypothesis_idx)
    /\ ~hypo.analysis_plan_accepted
    /\ hypo.analysis_plan = PlanContent
    /\ hypo.analysis_plan_chat_history # << >>
    /\ \E j \in 1..Len(updated_hypotheses) :
          /\ j # current_hypothesis_idx + 1
          /\ updated_hypotheses[j].analysis_plan_accepted

\* C9: the accept button on a record whose chat history is empty changes
\* neither the records (final_hypothesis, chat history) nor the gate.
C9_AcceptRejectedOnEmptyChat ==
    [][ ( /\ page = "hypotheses_manager"
          /\ HasRecords
          /\ updated_hypotheses[sel_idx + 1].chat_history = << >> )
        => ( /\ updated_hypotheses' = updated_hypotheses
             /\ all_hypotheses_accepted' = all_hypotheses_accepted ) ]_vars

\* C9 witness: the record in focus has an empty chat history and its accept
\* button is enabled (no final_hypothesis), the gate is off
C9_Witness ==
    /\ page = "hypotheses_manager"
    /\ HasRecords
    /\ updated_hypotheses[sel_idx + 1].chat_history = << >>
    /\ ~Truthy(updated_hypotheses[sel_idx + 1].final_hypothesis)
    /\ ~all_hypotheses_accepted

\* the refined text proposed in the most recent assistant turn of a chat
\* history; the seed message stands for the record's own refined text
RECURSIVE LatestProposed(_, _)
LatestProposed(h, n) ==
    IF n = 0 THEN h.refined_hypothesis_text
    ELSE IF h.chat_history[n].role = "assistant"
         THEN IF h.chat_history[n].refined = NoKey
              THEN h.refined_hypothesis_text
              ELSE h.chat_history[n].refined
         ELSE LatestProposed(h, n - 1)

\* C10: an accepted record's final_hypothesis is the refined text of the most
\* recent assistant turn of its chat history, also when the last turn's
\* assistant call failed.
C10_AcceptTakesLatestProposal ==
    \A i \in 1..Len(updated_hypotheses) :
        LET h == updated_hypotheses[i]
        IN  Truthy(h.final_hypothesis) =>
               h.final_hypothesis = LatestProposed(h, Len(h.chat_history))

\* C11: a record with analysis_plan_accepted holds an analysis_plan that an
\* assistant turn produced and that parses to a structured plan of the schema;
\* the accept button never stores a user message, also after a plan
\* generation call that failed.
C11_AcceptedPlanIsAssistantPlan ==
    \A i \in 1..Len(updated_hypotheses) :
        LET h == updated_hypotheses[i]
        IN  h.analysis_plan_accepted =>
               /\ h.analysis_plan = PlanContent
               /\ plan_dict(h.analysis_plan) = "schema_dict"

\* C12: a record whose execution is accepted (accept_analysis_execution) has
\* at least one assistant entry in plan_execution_chat_history.
C12_AcceptedExecutionHasTranscript ==
    \A i \in 1..Len(updated_hypotheses) :
        LET h == updated_hypotheses[i]
        IN  h.accept_analysis_execution =>
               \E k \in 1..Len(h.plan_execution_chat_history) :
                   h.plan_execution_chat_history[k].role = "assistant"

\* C12 witness: "Done" was clicked on a record after a completed run
C12_Witness ==
    /\ page = "plan_execution"
    /\ \E i \in 1..Len(updated_hypotheses) :
          /\ updated_hypotheses[i].accept_analysis_execution
          /\ updated_hypotheses[i].plan_execution_chat_history # << >>

IsPrefix(s, t) == Len(s) <= Len(t) /\ SubSeq(t, 1, Len(s)) = s

\* number of segments in the assistant entries of a transcript
RECURSIVE SegCount(_)
SegCount(hist) ==
    IF hist = << >> THEN 0
    ELSE (IF Head(hist).role = "assistant" THEN Len(Head(hist).items) ELSE 0)
         + SegCount(Tail(hist))

\* the assistant entries of hist from position n + 1 on
AppendedRuns(hist, n) ==
    SelectSeq(SubSeq(hist, n + 1, Len(hist)), LAMBDA m : m.role = "assistant")

\* C13: a step on the plan execution page leaves every entry already in a
\* record's plan_execution_chat_history unchanged and first; what it adds
\* comes after them, at most one run, and the transcript's segment count grows
\* by exactly the segments of that run.
C13_TranscriptAppendOnly ==
    [][ ( /\ page = "plan_execution" /\ page' = "plan_execution"
          /\ Len(updated_hypotheses') = Len(updated_hypotheses) )
        => \A i \in 1..Len(updated_hypotheses) :
              LET old == updated_hypotheses[i].plan_execution_chat_history
                  new == updated_hypotheses'[i].plan_execution_chat_history
                  runs == AppendedRuns(new, Len(old))
              IN  /\ IsPrefix(old, new)
                  /\ Len(runs) <= 1
                  /\ SegCount(new) = SegCount(old)
                        + (IF runs = << >> THEN 0 ELSE Len(runs[1].items)) ]_vars

\* C13 witness: the same record was run twice; the three segments of the first
\* run come first, the one segment of the second run after them
C13_Witness ==
    /\ page = "plan_execution"
    /\ \E i \in 1..Len(updated_hypotheses) :
          LET hist == updated_hypotheses[i].plan_execution_chat_history
          IN  /\ Len(hist) = 2
              /\ hist[1].role = "assistant" /\ Len(hist[1].items) = 3
              /\ hist[2].role = "assistant" /\ Len(hist[2].items) = 1
              /\ SegCount(hist) = 4

\* a step of "Start new session" on the report builder page
IsSessionReset ==
    page = "report_builder" /\ page' = "upload" /\ updated_hypotheses' = << >>

\* C14: once records exist, no step other than a full session reset deletes
\* or replaces the collection: the number of records stays and every record
\* keeps the messages of its three histories (running processing again and
\* saving edited column metadata included).
C14_RecordsCreatedOnce ==
    [][ (HasRecords /\ ~IsSessionReset)
        => /\ Len(updated_hypotheses') = Len(updated_hypotheses)
           /\ \A i \in 1..Len(updated_hypotheses) :
                 LET h == updated_hypotheses[i]
                     g == updated_hypotheses'[i]
                 IN  /\ IsPrefix(h.chat_history, g.chat_history)
                     /\ IsPrefix(h.analysis_plan_chat_history,
                                 g.analysis_plan_chat_history)
                     /\ IsPrefix(h.plan_execution_chat_history,
                                 g.plan_execution_chat_history) ]_vars

\* a refinement turn, a plan generation or plan chat turn, or an execution
\* turn whose assistant call raised
FailedTurn ==
    \/ \E text \in RefinedTexts : ChatPrompt(FALSE, text)
    \/ GeneratePlan(FALSE)
    \/ PlanChat(FALSE)
    \/ \E with_prompt \in BOOLEAN, outcome \in StreamOutcomes, stream \in RunStreams :
          /\ ~Completes(outcome, stream)
          /\ RunOrChat(with_prompt, outcome, stream)

\* C15: a turn whose assistant call fails leaves the session as it was before
\* the user action: no message appended to a history, no field or flag of a
\* record or of the session changed.
C15_FailedTurnChangesNothing ==
    [][ FailedTurn => UNCHANGED sessionVars ]_vars

CodeFragments == {<<"a">>, <<"b">>}

\* C16: the segment list of the aggregator never holds two adjacent segments
\* of the same type; three code deltas followed by one log output give exactly
\* two segments, a code_input with the fragments concatenated in order and a
\* code_output with the log text.
C16_RunLength ==
    /\ \A k \in 1..(Len(assistant_items) - 1) :
          assistant_items[k].type # assistant_items[k + 1].type
    /\ \A x \in CodeFragments, y \in CodeFragments, z \in CodeFragments :
          ( /\ agg_status = "done"
            /\ events = <<StepDelta(x), StepDelta(y), StepDelta(z),
                          StepCompleted(<<LogsOutput(<<"l">>)>>)>> )
          => assistant_items =
                <<[type |-> "code_input", content |-> x \o y \o z, file_id |-> NoKey],
                  [type |-> "code_output", content |-> <<"l">>, file_id |-> NoKey]>>

\* C16 witness: the loop of the execution page has read three code deltas and
\* a log output and holds two segments
C16_Witness ==
    /\ aggregator = "execution"
    /\ agg_status = "done"
    /\ events = <<StepDelta(<<"a">>), StepDelta(<<"b">>), StepDelta(<<"a">>),
                  StepCompleted(<<LogsOutput(<<"l">>)>>)>>
    /\ Len(assistant_items) = 2
    /\ assistant_items[1].content = <<"a", "b", "a">>

InsertAt(stream, k, ev) ==
    SubSeq(stream, 1, k) \o <<ev>> \o SubSeq(stream, k + 1, Len(stream))

\* C17: when the loop has ended on a stream, the loop over the same stream
\* with an event of an unrecognized class inserted at any position ends the
\* same way: the same segment list, and an exception only where the stream
\* without the event raises one.
C17_UnrecognizedEventIgnored ==
    agg_status \in {"done", "raised"} =>
       \A k \in 0..Len(events) :
          LET with_other == aggregate(aggregator, LoopStart,
                                      InsertAt(events, k, OtherEvent))
          IN  /\ with_other.raised = (agg_status = "raised")
              /\ agg_status = "done" => with_other.items = assistant_items

\* C17 witness: an unrecognized event between two code deltas, one segment
C17_Witness ==
    /\ agg_status = "done"
    /\ events = <<StepDelta(<<"a">>), OtherEvent, StepDelta(<<"b">>)>>
    /\ assistant_items =
          <<[type |-> "code_input", content |-> <<"a", "b">>, file_id |-> NoKey]>>

\* the event the loop has just read holds an image whose bytes cannot be read
ReadUnfetchableImage ==
    /\ cursor > 0
    /\ events[cursor].type = "ThreadRunStepCompleted"
    /\ \E k \in 1..Len(events[cursor].outputs) :
          /\ events[cursor].outputs[k].kind = "image"
          /\ ~events[cursor].outputs[k].fetch_ok

\* C18: an image output whose bytes cannot be fetched does not abort the
\* loop of the execution page: the loop goes on and its list holds a segment
\* for the image.
C18_ImageFailureDoesNotAbort ==
    (aggregator = "execution" /\ ReadUnfetchableImage)
       => /\ agg_status # "raised"
          /\ \E k \in 1..Len(assistant_items) : assistant_items[k].type = "image"

\* C19: for an input that is a mapping the parser returns that mapping as it
\* is, the empty mapping included, so parsing the result again gives the
\* same result.
C19_MappingReturnedUnchanged ==
    (parse_status = "returned" /\ parse_input.type = "dict")
       => /\ parse_result = parse_input
          /\ safe_load_plan(parse_result) = parse_result

\* C19 witness: the call returned for the empty mapping
C19_Witness ==
    /\ parse_status = "returned"
    /\ parse_input = PyDict("{}")
    /\ parse_result = PyDict("{}")

\* the rungs in the claimed order, on the trimmed text without its fence
FirstRung(txt) ==
    LET whole == json_loads(txt)
        literal == literal_eval(txt)
        frag == extract_json_fragment(txt)
    IN  CASE whole.ok -> whole.value
          [] ~whole.ok /\ literal.ok /\ literal.value.type = "dict" -> literal.value
          [] ~whole.ok /\ ~(literal.ok /\ literal.value.type = "dict")
                /\ frag # "" /\ json_loads(frag).ok -> json_loads(frag).value
          [] OTHER -> _mk_fallback_plan(txt)

\* C20: for a non-empty text the parser returns what the first successful
\* rung gives, in the order strict JSON of the whole text, literal that is a
\* mapping, strict JSON of the first brace-delimited fragment, markdown
\* fallback; a text that is a JSON document is returned as its JSON value.
C20_LadderOrder ==
    (parse_status = "returned" /\ parse_input.type = "str" /\ parse_input.val # "")
       => /\ parse_result = FirstRung(unfence(strip(parse_input.val)))
          /\ json_loads(parse_input.val).ok
                => parse_result = json_loads(parse_input.val).value

\* C20 witness: a JSON list that holds an object; the whole text wins over
\* the fragment rung
C20_Witness ==
    /\ parse_status = "returned"
    /\ parse_input = PyStr("[{\"a\": 1}]")
    /\ parse_result = PyList("[{'a': 1}]")
    /\ json_loads(extract_json_fragment(parse_input.val)).ok

\* C21: for the text "1. Do X\n2. Do Y" the parser returns one analysis
\* titled "Analysis Plan" whose steps are "Do X" and "Do Y", in this order.
C21_EnumeratedLinesBecomeSteps ==
    (parse_status = "returned" /\ parse_input = PyStr("1. Do X\n2. Do Y"))
       => parse_result =
             PyDict("{'analyses': [{'title': 'Analysis Plan', 'steps': ["
                    \o "{'step': 'Do X'}, {'step': 'Do Y'}]}]}")

\* C22: no call of the parser is left by an exception, and for the empty
\* string and for None the parser returns None.
C22_NeverRaises ==
    /\ parse_status # "raised"
    /\ (parse_status = "returned" /\ parse_input \in {PyNone, PyStr("")})
          => parse_result = PyNone

\* C23: for every non-empty text the parser returns a mapping.
C23_TextGivesMapping ==
    (parse_status = "returned" /\ parse_input.type = "str" /\ parse_input.val # "")
       => parse_result.type = "dict"

\* the markdown fallback is reached for the trimmed text without its fence
ReachesFallback(txt) ==
    /\ ~json_loads(txt).ok
    /\ ~(literal_eval(txt).ok /\ literal_eval(txt).value.type = "dict")
    /\ LET frag == extract_json_fragment(txt)
       IN  frag = "" \/ ~json_loads(frag).ok

\* no line after the first non-blank line matches the list pattern
NoListLine(txt) ==
    \A k \in 2..Len(stripped_lines(txt)) : step_match(stripped_lines(txt)[k]) = ""

\* the text after the title line
RemainingBody(txt) ==
    LET first == find(lstrip(txt, Whitespace), "\n", 1)
    IN  IF first = 0 THEN "" ELSE strip(From(lstrip(txt, Whitespace), first + 1))

\* C24: when the markdown fallback reads a text of a title line and further
\* lines none of which is a list line, the plan has exactly one step, and its
\* text is the text after the title line, without the title line.
C24_SingleStepIsRemainingBody ==
    LET txt == unfence(strip(parse_input.val))
    IN  ( /\ parse_status = "returned"
          /\ parse_input.type = "str"
          /\ parse_input.val # ""
          /\ ReachesFallback(txt)
          /\ Len(stripped_lines(txt)) > 1
          /\ NoListLine(txt) )
        => parse_result =
              PyDict("{'analyses': [{'title': '"
                     \o lstrip(stripped_lines(txt)[1], {"#", " "})
                     \o "', 'steps': [{'step': '" \o RemainingBody(txt) \o "'}]}]}")

\* fenced blocks with a closing marker
ClosedFences == {"json_fence", "bare_fence", "python_fence"}

\* C25: parsing a text wrapped in a fenced block, with or without a language
\* tag and also when the text directly follows the opening marker, gives what
\* parsing the text itself gives.
C25_FenceStripPreservesContent ==
    \A how \in ClosedFences, body \in Bodies :
       (parse_status \in {"returned", "raised"} /\ parse_input = PyStr(Wrap(how, body)))
          => LET plain == safe_load_plan(PyStr(body))
             IN  IF plain.type = "raise" THEN parse_status = "raised"
                 ELSE parse_status = "returned" /\ parse_result = plain

\* C26: a script run of one session changes nothing another session reads in
\* files, file_ids and images, and the first run of a session leaves it with
\* all three empty.
C26_NoStateSharedAcrossSessions ==
    [][ \A s \in Sessions :
          SessionRun(s) =>
             /\ \A t \in Sessions \ {s} :
                   session_state[t].connected => objects(t)' = objects(t)
             /\ init_state(s) => objects(s)' = EmptyObjects ]_vars

\* C27: a refinement turn or an accept on the hypotheses manager page leaves
\* the number of records as it is and, for every record, the messages of its
\* chat_history as a prefix of its new chat_history.
C27_ChatHistoryAppendOnly ==
    [][ ( \/ \E ok \in BOOLEAN, text \in RefinedTexts : ChatPrompt(ok, text)
          \/ AcceptClicked )
        => /\ Len(updated_hypotheses') = Len(updated_hypotheses)
           /\ \A i \in 1..Len(updated_hypotheses) :
                 IsPrefix(updated_hypotheses[i].chat_history,
                          updated_hypotheses'[i].chat_history) ]_vars

\* C27 witness: a record was refined in one answered turn and then accepted;
\* the message of the processing stage is still the first of three
C27_Witness ==
    /\ page = "hypotheses_manager"
    /\ \E i \in 1..Len(updated_hypotheses) :
          LET h == updated_hypotheses[i]
          IN  /\ Len(h.chat_history) = 3
              /\ h.chat_history[1] = [role |-> "assistant", refined |-> NoKey]
              /\ h.chat_history[2].role = "user"
              /\ h.chat_history[3].role = "assistant"
              /\ Truthy(h.final_hypothesis)
              /\ h.final_hypothesis = h.chat_history[3].refined

\* what one event asks of the list, in arrival order: the segment type it
\* belongs to and the fragment it carries (none when it only opens a segment)
Contribution(ev) ==
    CASE ev.type = "ThreadRunStepCreated" ->
            IF ev.tool_calls THEN <<[type |-> "code_input", fragment |-> << >>]>>
            ELSE << >>
      [] ev.type = "ThreadRunStepDelta" ->
            IF ev.input # << >> THEN <<[type |-> "code_input", fragment |-> ev.input]>>
            ELSE << >>
      [] ev.type = "ThreadRunStepCompleted" ->
            [k \in 1..Len(ev.outputs) |->
                IF ev.outputs[k].kind = "logs"
                THEN [type |-> "code_output", fragment |-> ev.outputs[k].logs]
                ELSE [type |-> "image", fragment |-> <<html(ev.outputs[k].file_id)>>]]
      [] ev.type = "ThreadMessageCreated" -> <<[type |-> "text", fragment |-> << >>]>>
      [] ev.type = "ThreadMessageDelta" ->
            IF ev.is_text THEN <<[type |-> "text", fragment |-> ev.value]>>
            ELSE << >>
      [] OTHER -> << >>

RECURSIVE Contributions(_)
Contributions(stream) ==
    IF stream = << >> THEN << >>
    ELSE Contribution(Head(stream)) \o Contributions(Tail(stream))

\* the runs of consecutive contributions of one type, each with its fragments
\* concatenated in arrival order
RECURSIVE Runs(_)
Runs(contribs) ==
    IF contribs = << >> THEN << >>
    ELSE LET c == Head(contribs)
             later == Runs(Tail(contribs))
         IN  IF later # << >> /\ later[1].type = c.type
             THEN <<[type |-> c.type, content |-> c.fragment \o later[1].content]>>
                  \o Tail(later)
             ELSE <<[type |-> c.type, content |-> c.fragment]>> \o later

\* C28: while the loop of the execution page runs and when it has ended, its
\* list holds one segment for every run of consecutive contributions of one
\* type among the events read, in the order of arrival, and the content of
\* every code_input, code_output and text segment is the concatenation, in
\* arrival order, of the fragments of its run.
C28_NeverReorders ==
    (aggregator = "execution" /\ agg_status \in {"streaming", "done"})
       => LET runs == Runs(Contributions(SubSeq(events, 1, cursor)))
          IN  /\ Len(assistant_items) = Len(runs)
              /\ \A k \in 1..Len(runs) :
                    /\ assistant_items[k].type = runs[k].type
                    /\ runs[k].type # "image"
                          => assistant_items[k].content = runs[k].content

\* C28 witness: two code deltas, a log output and a text delta have been read
\* and the list holds three segments in this order
C28_Witness ==
    /\ aggregator = "execution"
    /\ agg_status = "done"
    /\ events = <<StepDelta(<<"a">>), StepDelta(<<"b">>),
                  StepCompleted(<<LogsOutput(<<"l">>)>>), MessageDelta(TRUE, <<"t">>)>>
    /\ assistant_items =
          <<[type |-> "code_input", content |-> <<"a", "b">>, file_id |-> NoKey],
            [type |-> "code_output", content |-> <<"l">>, file_id |-> NoKey],
            [type |-> "text", content |-> <<"t">>, file_id |-> NoKey]>>

\* every image of the stream can be read
ImagesReadable(stream) ==
    \A k \in 1..Len(stream) :
       stream[k].type = "ThreadRunStepCompleted"
          => \A j \in 1..Len(stream[k].outputs) :
                stream[k].outputs[j].kind = "image" => stream[k].outputs[j].fetch_ok

\* types and contents of a segment list
TypesAndContents(items) ==
    [k \in 1..Len(items) |-> [type |-> items[k].type, content |-> items[k].content]]

\* C29: on every stream whose images can be read the loop of the report page
\* and the loop of the execution page both end without an exception and with
\* the same list of segment types and contents.
C29_AggregatorsEquivalent ==
    (agg_status \in {"done", "raised"} /\ ImagesReadable(events))
       => LET execution == aggregate("execution", LoopStart, events)
              report == aggregate("report", LoopStart, events)
          IN  /\ agg_status = "done"
              /\ ~execution.raised
              /\ ~report.raised
              /\ TypesAndContents(report.items) = TypesAndContents(execution.items)

\* C30: between two script runs, when no assistant call is under way, the
\* flags analysis_running and report_running are false, so the buttons
\* "Run analysis" and "Generate full report" are enabled.
C30_RunningFlagsClearedAtRest ==
    ~analysis_running /\ ~report_running

\* C31: when the execution page has in focus a record with an accepted plan
\* for which the parser returns a value, the script gets past the plan
\* summary, so the plan is displayed and can be run.
C31_ParsedPlanUsable ==
    ( /\ ExecFocus
      /\ SidebarComplete
      /\ hypo_obj.analysis_plan_accepted
      /\ plan_dict(hypo_obj.analysis_plan) # "None" )
    => ExecPageReady

\* C32: every record whose plan is accepted has a non-empty final_hypothesis.
C32_AcceptedPlanHasFinalHypothesis ==
    \A i \in 1..Len(updated_hypotheses) :
       updated_hypotheses[i].analysis_plan_accepted
          => Truthy(updated_hypotheses[i].final_hypothesis)

\* C33: every record that is executed, or whose execution is accepted, has
\* an accepted plan.
C33_ExecutedHasAcceptedPlan ==
    \A i \in 1..Len(updated_hypotheses) :
       (updated_hypotheses[i].analysis_executed
           \/ updated_hypotheses[i].accept_analysis_execution)
          => updated_hypotheses[i].analysis_plan_accepted

\* C34: on a page that picks the record in focus of a non-empty collection,
\* the index the page uses is below the number of records: selected_hypothesis
\* on the hypotheses manager, current_hypothesis_idx on the plan manager,
\* current_exec_idx on the plan execution page.
C34_SelectionIndexInRange ==
    HasRecords =>
       /\ page = "hypotheses_manager" => InRange(selected_hypothesis)
       /\ page = "plan_manager" => InRange(current_hypothesis_idx)
       /\ page = "plan_execution" => InRange(current_exec_idx)

\* the parts of a prompt, as a set
Parts(prompt) == { prompt[k] : k \in 1..Len(prompt) }

\* C35: when a run of the execution page has ended, the report prompt built
\* from a record that holds its transcript names, for every image rendered in
\* an image segment, the file id and the path of that image.
C35_EveryImageInReportPrompt ==
    (aggregator = "execution" /\ agg_status = "done")
       => LET record == [NewRecord EXCEPT
                            !.plan_execution_chat_history =
                               <<[role |-> "assistant", items |-> assistant_items]>>]
              prompt == build_report_prompt(<<record>>)
          IN  \A k \in 1..Len(assistant_items) :
                 assistant_items[k].type = "image"
                    => \A j \in 1..Len(assistant_items[k].content) :
                          LET fid == assistant_items[k].content[j][2]
                          IN  /\ <<fid>> \in Parts(prompt)
                              /\ image_path(fid) \in Parts(prompt)

\* C36: the run in which a session is reset with "Yes, delete everything"
\* leaves the session with no files, no file ids and no images and with its
\* upload flags false, whatever was done before.
C36_ResetGivesPristineDefaults ==
    [][ \A s \in Sessions :
          reset_state(s) =>
             /\ objects(s)' = EmptyObjects
             /\ ~session_state'[s].data_uploaded
             /\ ~session_state'[s].hypotheses_uploaded ]_vars

\* C37: while hypotheses_uploaded is true, the hypotheses value the refinement
\* call received is the text the upload page stored last, and it is not empty
C37_RefinementReceivesUploadedText ==
    (hypotheses_uploaded /\ refinement_input # NoKey) =>
        /\ refinement_input = hypotheses_text
        /\ refinement_input # ""

\* C38: once the report is generated, a report-chat turn appends one user
\* entry followed by one assistant entry to report_chat_history; it never
\* leaves the user entry alone
C38_ReportTurnAppendsBoth ==
    [][ ( /\ page = "report_builder" /\ page' = "report_builder"
          /\ report_generated
          /\ report_chat_history' # report_chat_history )
        => report_chat_history' =
              report_chat_history \o <<[role |-> "user"], [role |-> "assistant"]>> ]_vars

====
